---- MODULE Spec2Model ----
(***************************************************************************)
(* Model of main.py of notion-google-tasks-syncer: the two helper          *)
(* functions (extract_notion_id, update_google_task_status), the sync      *)
(* function sync_inbox_to_gtasks and the periodic main loop.               *)
(*                                                                         *)
(* Python values are encoded as follows.  A str is a sequence of           *)
(* one-character strings.  None is the one-element sequence <<"None">>,    *)
(* which is no str because "None" is not one character.  A timestamp is a  *)
(* str.  The two remote services (Notion, Google Tasks) are part of the    *)
(* state: pages and schema are the Notion database, tasklist, tasks and    *)
(* links are the Google tasklist and the sync library's page-to-task       *)
(* association.                                                            *)
(***************************************************************************)
EXTENDS Integers, Sequences, FiniteSets, TLC

VARIABLES
    \* ---- the main loop and one invocation of sync_inbox_to_gtasks
    pc,        \* position of the single thread of control
    sessions,  \* [notion, gtasks] -> BOOLEAN: which sessions are open
    opens,     \* [notion, gtasks] -> Nat: sessions opened in this invocation
    results,   \* page ids returned by the filtered query of this invocation
    exc,       \* the exception in flight, or None
    outcome,   \* how the last invocation ended: "none", "ok", "early", "raised"
    fails,     \* consecutive failed invocations, saturating at MaxFail
    sleeps,    \* time.sleep calls since the last invocation ended
    slept,     \* seconds slept since the last invocation ended
    log,       \* kinds of lines printed by the current/last invocation
    active,    \* invocations of sync_inbox_to_gtasks in progress
    touched,   \* page ids whose task was created or updated in this invocation
    passes,    \* passes of the scheduled sync task still to run
    tasks0,    \* the tasks of the tasklist when this invocation started
    \* ---- the two remote services
    pages,     \* page id -> page record or NoPage
    schema,    \* names of the properties and status options of the database
    tasklist,  \* the tasklist 'My synced task list' exists
    tasks,     \* sequence of task records of the tasklist
    links,     \* page id -> index into tasks, 0 when not yet synced
    \* ---- one Google Task object handed to the helper functions
    gtask,     \* the local task object [title, notes, completed]
    remote,    \* the completion the Google Tasks service holds for it
    ret,       \* [done, value]: the value extract_notion_id returned
    last,      \* the last call of update_google_task_status
    calls      \* number of calls of update_google_task_status so far

progVars == <<pc, sessions, opens, results, exc, outcome, fails, sleeps, slept,
              log, active, touched, passes, tasks0>>
envVars == <<pages, schema, tasklist, tasks, links>>
helpVars == <<gtask, remote, ret, last, calls>>
vars == <<progVars, envVars, helpVars>>

----------------------------------------------------------------------------
\* Bounds of the model.

\* longest run of whitespace between the label and the token in a notes text
MaxWs == 2
\* longest identifier token in a notes text
MaxTok == 2
\* calls of update_google_task_status on one task object
MaxCalls == 3
\* the count of consecutive failed invocations saturates here
MaxFail == 2

----------------------------------------------------------------------------
\* Python values.

None == <<"None">>

\* the characters \s matches that are used in the notes texts
Whitespace == {" ", "\t", "\n"}

IsSpace(c) == c \in Whitespace

\* the literal part of the pattern r'Notion ID:\s*(\S+)'
Label == <<"N", "o", "t", "i", "o", "n", " ", "I", "D", ":">>

\* truth value of a str-or-None, as in `if gtask.notes:`
Truthy(s) == s # None /\ s # <<>>

----------------------------------------------------------------------------
\* re.search(r'Notion ID:\s*(\S+)', s), as a backtracking matcher.

\* the literal lit matches s at position i
StartsWith(s, i, lit) ==
    /\ i + Len(lit) - 1 <= Len(s)
    /\ SubSeq(s, i, i + Len(lit) - 1) = lit

\* \s* is greedy: the first position at or after j that holds no whitespace
RECURSIVE SkipSpaces(_, _)
SkipSpaces(s, j) ==
    IF j <= Len(s) /\ IsSpace(s[j]) THEN SkipSpaces(s, j + 1) ELSE j

\* \S+ is greedy: the first position at or after k that holds no non-whitespace
RECURSIVE TakeNonSpace(_, _)
TakeNonSpace(s, k) ==
    IF k <= Len(s) /\ ~IsSpace(s[k]) THEN TakeNonSpace(s, k + 1) ELSE k

\* (\S+) tried after \s* consumed s[j..k-1]; on failure \s* gives one back
RECURSIVE Backtrack(_, _, _)
Backtrack(s, j, k) ==
    IF k < j THEN None
    ELSE LET m == TakeNonSpace(s, k)
         IN  IF m > k THEN SubSeq(s, k, m - 1) ELSE Backtrack(s, j, k - 1)

\* the pattern anchored at position i: group 1, or None
MatchAt(s, i) ==
    IF StartsWith(s, i, Label)
    THEN LET j == i + Len(Label)
         IN  Backtrack(s, j, SkipSpaces(s, j))
    ELSE None

\* a matcher that tries position i only (re.match instead of re.search)
re_match(s, i) == MatchAt(s, i)

\* re.search tries every start position from the left; first match wins
RECURSIVE re_search(_, _)
re_search(s, i) ==
    IF i > Len(s) THEN None
    ELSE LET match == MatchAt(s, i)
         IN  IF match # None THEN match ELSE re_search(s, i + 1)

\* main.py:47-57
extract_notion_id(g) ==
    IF Truthy(g.notes)
    THEN LET match == re_search(g.notes, 1)
         IN  IF match # None THEN match ELSE None
    ELSE None

----------------------------------------------------------------------------
\* update_google_task_status and the Google Task methods it calls.

\* gtask.mark_completed(): the task gets a completion timestamp
mark_completed(g, now) == [g EXCEPT !.completed = now]

\* gtask.mark_incomplete(): the completion timestamp is removed
mark_incomplete(g) == [g EXCEPT !.completed = None]

\* gtask.update(): the service takes over the local object's state
update(g) == g.completed

\* the function with gtask.update() only inside the two branches
update_only_on_change(g, notion_done, now) ==
    LET gtask_is_done == g.completed # None
    IN  IF notion_done /\ ~gtask_is_done
        THEN [gtask |-> mark_completed(g, now),
              cmds |-> <<"mark_completed", "update">>,
              out |-> <<"completed", g.title>>]
        ELSE IF (~notion_done) /\ gtask_is_done
        THEN [gtask |-> mark_incomplete(g),
              cmds |-> <<"mark_incomplete", "update">>,
              out |-> <<"not completed", g.title>>]
        ELSE [gtask |-> g, cmds |-> <<>>, out |-> <<>>]

\* the function with the `not` of the first condition lost
update_without_not(g, notion_done, now) ==
    LET gtask_is_done == g.completed # None
    IN  IF notion_done /\ gtask_is_done
        THEN [gtask |-> mark_completed(g, now),
              cmds |-> <<"mark_completed", "update">>,
              out |-> <<"completed", g.title>>]
        ELSE IF (~notion_done) /\ gtask_is_done
        THEN [gtask |-> mark_incomplete(g),
              cmds |-> <<"mark_incomplete", "update">>,
              out |-> <<"not completed", g.title>>]
        ELSE [gtask |-> g, cmds |-> <<"update">>, out |-> <<>>]

\* main.py:60-75.  The result is the task object after the call, the methods
\* called on it in order, and the line printed (empty when none is).
update_google_task_status(g, notion_done, now) ==
    LET gtask_is_done == g.completed # None
    IN  IF notion_done /\ ~gtask_is_done
        THEN [gtask |-> mark_completed(g, now),
              cmds |-> <<"mark_completed", "update">>,
              out |-> <<"completed", g.title>>]
        ELSE IF (~notion_done) /\ gtask_is_done
        THEN [gtask |-> mark_incomplete(g),
              cmds |-> <<"mark_incomplete", "update">>,
              out |-> <<"not completed", g.title>>]
        ELSE [gtask |-> g, cmds |-> <<"update">>, out |-> <<>>]

----------------------------------------------------------------------------
\* Constants of main.py.

\* SYNC_INTERVAL = 60
SYNC_INTERVAL == 60

\* sync_task.run_every(seconds=1).in_total(times=2)
TotalTimes == 2

\* the property and option names main.py looks up in the database schema
FilterProps == {"For Later", "Dump It"}
PrintProps == {"For later", "Dump it"}
SchemaNames == FilterProps \cup PrintProps \cup {"Date", "Organized", "Done", "Backlog"}

\* the classes of the exceptions an invocation raises; all derive from Exception
ExceptionSubclasses == {"APIError", "StopIteration", "KeyError", "SchemaError"}

\* a handler that names one class only
catches_key_error_only(e) == e = "KeyError"

\* `except Exception as e` catches e
catches(e) == e \in ExceptionSubclasses

\* a sleep that backs off after a failed invocation
sleep_with_backoff(o) == IF o = "raised" THEN 2 * SYNC_INTERVAL ELSE SYNC_INTERVAL

\* time.sleep(SYNC_INTERVAL), whatever the outcome o of the invocation
sleep_duration(o) == SYNC_INTERVAL

Closed == [notion |-> FALSE, gtasks |-> FALSE]

\* sessions closed by hand at the end of the body, so not when it raises
close_unless_raised(sess, path) == IF path = "raise" THEN sess ELSE Closed

\* `with uno.Session() as notion, GTasksClient(...) as gtasks`: leaving the
\* statement closes both sessions on every path ("normal", "return", "raise")
with_exit(sess, path) == Closed

\* a test for a missing database object, which get_db never returns
is_none(pgs) == FALSE

\* inbox_db.is_empty
is_empty(pgs) == DOMAIN pgs = {}

\* combined_filter: Status is Organized, For Later unchecked, Dump It unchecked
combined_filter(page) ==
    /\ page.status = "Organized"
    /\ page.forLater = FALSE
    /\ page.dumpIt = FALSE

\* the timestamp the service gives a task completed by the sync
SyncStamp == <<"t", "1">>

\* One pass of the scheduled SyncGTasks task.  main.py:131-138 gives it
\* notion_db=inbox_db (the database, not the results of the query), the Status
\* column with completed_val 'Done', and nothing to put into notes: over the
\* pages ps, a page without a task gets one (title only, no notes), a page
\* with a task has the task's completion set from Status.  ls is the
\* library's association of pages with tasks, taken to last across passes
\* and invocations.
RECURSIVE sync_pages(_, _, _, _)
sync_pages(ps, pgs, ts, ls) ==
    IF ps = {} THEN [tasks |-> ts, links |-> ls]
    ELSE LET p == CHOOSE x \in ps : TRUE
             completed == IF pgs[p].status = "Done" THEN SyncStamp ELSE None
         IN  IF ls[p] = 0
             THEN sync_pages(ps \ {p}, pgs,
                      Append(ts, [title |-> p, notes |-> None, completed |-> completed]),
                      [ls EXCEPT ![p] = Len(ts) + 1])
             ELSE sync_pages(ps \ {p}, pgs,
                      [ts EXCEPT ![ls[p]].completed =
                          IF (completed = None) = (@ = None) THEN @ ELSE completed],
                      ls)

----------------------------------------------------------------------------
\* Values the state is drawn from.

SeqsUpTo(S, n) == UNION {[1..k -> S] : k \in 0..n}

Timestamps == {<<"t", "1">>, <<"t", "2">>}

Titles == {<<"A">>, <<"B">>}

\* the label without its colon, and in lower case followed by a token
LabelNoColon == <<"N", "o", "t", "i", "o", "n", " ", "I", "D">>
LowerLabel == <<"n", "o", "t", "i", "o", "n", " ", "i", "d", ":", " ", "z", " ">>

\* notes texts: a prefix, the label or a near miss, whitespace, a token, a rest
Prefixes == {<<>>, <<"x", " ">>, LowerLabel}
Mids == {Label, LabelNoColon, <<>>}
WsRuns == SeqsUpTo({" ", "\n"}, MaxWs)
Tokens == SeqsUpTo({"a", "1"}, MaxTok)
Posts == {<<>>, <<" ", "z">>, <<"\n">> \o Label \o <<" ", "b">>}

NotesTexts ==
    {pre \o mid \o ws \o tok \o post :
        pre \in Prefixes, mid \in Mids, ws \in WsRuns, tok \in Tokens, post \in Posts}

NotesValues == NotesTexts \cup {None}

NoCall == [src |-> FALSE, before |-> None, cmds |-> <<>>, out |-> <<>>,
           repeat |-> FALSE]

\* the helper variables while no helper function is exercised
HelpIdle ==
    /\ gtask = [title |-> <<"A">>, notes |-> None, completed |-> None]
    /\ remote = None
    /\ ret = [done |-> FALSE, value |-> None]
    /\ last = NoCall
    /\ calls = 0

\* the loop and the services before the program starts
ProgInit ==
    /\ pc = "main"
    /\ sessions = [notion |-> FALSE, gtasks |-> FALSE]
    /\ opens = [notion |-> 0, gtasks |-> 0]
    /\ results = {}
    /\ exc = None
    /\ outcome = "none"
    /\ fails = 0
    /\ sleeps = 0
    /\ slept = 0
    /\ log = {}
    /\ active = 0
    /\ touched = {}
    /\ passes = 0
    /\ tasks0 = <<>>

----------------------------------------------------------------------------
\* extract_notion_id applied to a task whose notes are any of NotesValues.

ExtractInit ==
    /\ ProgInit
    /\ pages = <<>> /\ schema = {} /\ tasklist = FALSE /\ tasks = <<>> /\ links = <<>>
    /\ gtask \in [title : {<<"A">>}, notes : NotesValues, completed : {None}]
    /\ remote = None
    /\ ret = [done |-> FALSE, value |-> None]
    /\ last = NoCall
    /\ calls = 0

ExtractCall ==
    /\ ~ret.done
    /\ ret' = [done |-> TRUE, value |-> extract_notion_id(gtask)]
    /\ UNCHANGED <<progVars, envVars, gtask, remote, last, calls>>

ExtractNext == ExtractCall

ExtractSpec == ExtractInit /\ [][ExtractNext]_vars

----------------------------------------------------------------------------
\* update_google_task_status called repeatedly on one task object.

ReconcileInit ==
    /\ ProgInit
    /\ pages = <<>> /\ schema = {} /\ tasklist = FALSE /\ tasks = <<>> /\ links = <<>>
    /\ gtask \in [title : Titles,
                  notes : {None, <<>>, Label \o <<" ", "a">>},
                  completed : {None} \cup Timestamps]
    /\ remote = gtask.completed
    /\ ret = [done |-> FALSE, value |-> None]
    /\ last = NoCall
    /\ calls = 0

ReconcileCall(notion_done, now) ==
    /\ calls < MaxCalls
    /\ LET r == update_google_task_status(gtask, notion_done, now)
       IN  /\ gtask' = r.gtask
           /\ remote' = IF \E i \in DOMAIN r.cmds : r.cmds[i] = "update"
                        THEN update(r.gtask) ELSE remote
           /\ last' = [src |-> notion_done, before |-> gtask.completed,
                       cmds |-> r.cmds, out |-> r.out,
                       repeat |-> (calls > 0 /\ last.src = notion_done)]
    /\ calls' = calls + 1
    /\ UNCHANGED <<progVars, envVars, ret>>

ReconcileNext == \E notion_done \in BOOLEAN, now \in Timestamps :
                    ReconcileCall(notion_done, now)

ReconcileSpec == ReconcileInit /\ [][ReconcileNext]_vars

----------------------------------------------------------------------------
\* Properties of the two helper functions.

Issued(cmd) == \E i \in DOMAIN last.cmds : last.cmds[i] = cmd

TimesIssued(cmd) == Cardinality({i \in DOMAIN last.cmds : last.cmds[i] = cmd})

\* C1: after update_google_task_status(gtask, notion_done) returns, the task
\* is done (completed is not None) exactly if notion_done; mark_completed was
\* called exactly for (notion_done, done before) = (TRUE, FALSE) and
\* mark_incomplete exactly for (FALSE, TRUE).
C1_StatusReconciled ==
    calls > 0 =>
        /\ (gtask.completed # None) = last.src
        /\ Issued("mark_completed") <=> (last.src /\ last.before = None)
        /\ Issued("mark_incomplete") <=> (~last.src /\ last.before # None)

\* a completed task was just marked incomplete, after an earlier call
C1_Witness ==
    /\ calls >= 2
    /\ ~last.src
    /\ last.before \in Timestamps
    /\ gtask.completed = None
    /\ Issued("mark_incomplete")

\* C2 as claimed: gtask.update is called if and only if notion_done and the
\* task's done-ness differed before the call.
C2_UpdateIffDiffered ==
    calls > 0 => (Issued("update") <=> ((last.before # None) # last.src))

\* C2 as amended: gtask.update is called exactly once in every call, whether
\* or not the two differed, and leaves the service holding the task's state;
\* a call that finds the task's done-ness equal to notion_done, and so every
\* call repeating the previous notion_done, calls update and nothing else and
\* leaves the completion state as it was.
C2_UpdateEveryCall ==
    calls > 0 =>
        /\ TimesIssued("update") = 1
        /\ remote = gtask.completed
        /\ ((last.before # None) = last.src) =>
               (last.cmds = <<"update">> /\ gtask.completed = last.before)
        /\ last.repeat => (last.before # None) = last.src

\* the reconciler was called again with the notion_done of the previous call
C2_Witness ==
    /\ calls >= 2
    /\ last.repeat
    /\ last.src
    /\ last.before \in Timestamps
    /\ last.cmds = <<"update">>

HasLabelAt(s, i) == StartsWith(s, i, Label)

HasLabel(s) == \E i \in 1..Len(s) : HasLabelAt(s, i)

\* the position of the first occurrence of the label in s
FirstLabel(s) ==
    CHOOSE i \in 1..Len(s) :
        HasLabelAt(s, i) /\ \A h \in 1..(i - 1) : ~HasLabelAt(s, h)

\* s[k..m] is the token after the label at position i: whitespace only
\* between the label and position k, no whitespace in s[k..m], and the token
\* ends at the end of s or before whitespace
TokenAfterLabel(s, i, k, m) ==
    /\ \A h \in (i + Len(Label))..(k - 1) : s[h] \in Whitespace
    /\ \A h \in k..m : s[h] \notin Whitespace
    /\ m = Len(s) \/ s[m + 1] \in Whitespace

\* C3: when the notes hold `Notion ID:`, optional whitespace and a token X
\* of non-whitespace, extract_notion_id returns X, taken from the first
\* occurrence of the label; when the notes are None, empty or without the
\* label it returns None.
C3_ExtractsToken ==
    ret.done =>
        LET s == gtask.notes
        IN  IF s = None \/ ~HasLabel(s)
            THEN ret.value = None
            ELSE LET i == FirstLabel(s)
                 IN  \A k \in (i + Len(Label))..Len(s) : \A m \in k..Len(s) :
                        TokenAfterLabel(s, i, k, m) => ret.value = SubSeq(s, k, m)

\* a token was extracted from notes that hold the label twice, the first
\* occurrence not at the start and followed by whitespace
C3_Witness ==
    /\ ret.done
    /\ ret.value = <<"a", "1">>
    /\ ~HasLabelAt(gtask.notes, 1)
    /\ Cardinality({i \in 1..Len(gtask.notes) : HasLabelAt(gtask.notes, i)}) = 2
    /\ \E i \in 1..Len(gtask.notes) :
          HasLabelAt(gtask.notes, i) /\ gtask.notes[i + Len(Label)] \in Whitespace

----------------------------------------------------------------------------
\* The main loop (main.py:152-161) and sync_inbox_to_gtasks (main.py:82-146).

\* the identifiers of the pages the database may hold
PageIds == {<<"a">>}

Statuses == {"Organized", "Done"}

PageRecords == [status : Statuses, forLater : BOOLEAN, dumpIt : BOOLEAN, done : BOOLEAN]

\* the databases: any set of pages
Databases == UNION {[D -> PageRecords] : D \in SUBSET PageIds}

\* the names that one statement of main.py looks up together
LookupGroups == {FilterProps, PrintProps, {"Date"}, {"Organized"}, {"Done", "Backlog"}}

\* the schemas: complete, or without the names of one lookup
Schemas == {SchemaNames} \cup {SchemaNames \ g : g \in LookupGroups}

\* the pcs at which the body of the with statement runs
BodyPcs == {"get_db", "is_empty", "organized_option", "query", "print_results",
            "get_props", "get_tasklist", "sync_task", "run_all_tasks"}

Init ==
    /\ ProgInit
    /\ pages \in Databases
    /\ schema \in Schemas
    /\ tasklist = FALSE
    /\ tasks = <<>>
    /\ links = [p \in PageIds |-> 0]
    /\ HelpIdle

\* an exception of class kind leaves sync_inbox_to_gtasks with sessions sess
Raise(kind, sess) ==
    /\ pc' = "except"
    /\ exc' = kind
    /\ sessions' = sess
    /\ active' = active - 1

\* sync_inbox_to_gtasks returns: the sleep of the loop is next
Return(how, path) ==
    /\ pc' = "sleep"
    /\ outcome' = how
    /\ sessions' = with_exit(sessions, path)
    /\ active' = active - 1
    /\ fails' = 0
    /\ sleeps' = 0
    /\ slept' = 0

\* main.py:152-155
Main ==
    /\ pc = "main"
    /\ pc' = "try"
    /\ UNCHANGED <<sessions, opens, results, exc, outcome, fails, sleeps, slept,
                   log, active, touched, passes, tasks0, envVars, helpVars>>

\* main.py:157-158 and 82-87: the call of sync_inbox_to_gtasks
Invoke ==
    /\ pc = "try"
    /\ pc' = "open_notion"
    /\ active' = active + 1
    /\ tasks0' = tasks
    /\ UNCHANGED <<sessions, opens, results, exc, outcome, fails, sleeps, slept,
                   log, touched, passes, envVars, helpVars>>

\* main.py:90, first item: uno.Session() is entered, or fails
OpenNotion ==
    /\ pc = "open_notion"
    /\ \/ /\ sessions' = [sessions EXCEPT !.notion = TRUE]
          /\ opens' = [opens EXCEPT !.notion = @ + 1]
          /\ pc' = "open_gtasks"
          /\ UNCHANGED <<exc, active>>
       \/ /\ Raise("APIError", sessions)
          /\ UNCHANGED opens
    /\ UNCHANGED <<results, outcome, fails, sleeps, slept, log, touched, passes,
                   tasks0, envVars, helpVars>>

\* main.py:90, second item: GTasksClient is entered, or fails
OpenGTasks ==
    /\ pc = "open_gtasks"
    /\ \/ /\ sessions' = [sessions EXCEPT !.gtasks = TRUE]
          /\ opens' = [opens EXCEPT !.gtasks = @ + 1]
          /\ pc' = "get_db"
          /\ UNCHANGED <<exc, active>>
       \/ /\ Raise("APIError", with_exit(sessions, "raise"))
          /\ UNCHANGED opens
    /\ UNCHANGED <<results, outcome, fails, sleeps, slept, log, touched, passes,
                   tasks0, envVars, helpVars>>

\* main.py:93
GetDb ==
    /\ pc = "get_db"
    /\ \/ /\ pc' = "is_empty"
          /\ UNCHANGED <<exc, sessions, active>>
       \/ Raise("APIError", with_exit(sessions, "raise"))
    /\ UNCHANGED <<opens, results, outcome, fails, sleeps, slept, log, touched,
                   passes, tasks0, envVars, helpVars>>

\* main.py:94-96
IsEmpty ==
    /\ pc = "is_empty"
    /\ IF is_empty(pages)
       THEN /\ log' = log \cup {<<"Could not load">>}
            /\ Return("early", "return")
       ELSE /\ pc' = "organized_option"
            /\ UNCHANGED <<log, outcome, sessions, active, fails, sleeps, slept>>
    /\ UNCHANGED <<opens, results, exc, touched, passes, tasks0, envVars, helpVars>>

\* main.py:98: next() over the options named 'Organized'
OrganizedOption ==
    /\ pc = "organized_option"
    /\ IF "Organized" \in schema
       THEN /\ pc' = "query"
            /\ UNCHANGED <<exc, sessions, active>>
       ELSE Raise("StopIteration", with_exit(sessions, "raise"))
    /\ UNCHANGED <<opens, results, outcome, fails, sleeps, slept, log, touched,
                   passes, tasks0, envVars, helpVars>>

\* main.py:106-114: the query with the combined filter
Query ==
    /\ pc = "query"
    /\ \/ /\ FilterProps \subseteq schema
          /\ results' = {p \in DOMAIN pages : combined_filter(pages[p])}
          /\ pc' = "print_results"
          /\ UNCHANGED <<exc, sessions, active>>
       \/ /\ Raise("APIError", with_exit(sessions, "raise"))
          /\ UNCHANGED results
    /\ UNCHANGED <<opens, outcome, fails, sleeps, slept, log, touched, passes,
                   tasks0, envVars, helpVars>>

\* main.py:115-119: the loop printing the results
PrintResults ==
    /\ pc = "print_results"
    /\ IF results = {}
       THEN /\ pc' = "get_props"
            /\ UNCHANGED <<log, exc, sessions, active>>
       ELSE IF PrintProps \subseteq schema
       THEN /\ log' = log \cup {<<"Task">>}
            /\ pc' = "get_props"
            /\ UNCHANGED <<exc, sessions, active>>
       ELSE /\ log' = log \cup {<<"Task">>}
            /\ Raise("KeyError", with_exit(sessions, "raise"))
    /\ UNCHANGED <<opens, results, outcome, fails, sleeps, slept, touched, passes,
                   tasks0, envVars, helpVars>>

\* main.py:122-123
GetProps ==
    /\ pc = "get_props"
    /\ IF "Date" \in schema
       THEN /\ pc' = "get_tasklist"
            /\ UNCHANGED <<exc, sessions, active>>
       ELSE Raise("SchemaError", with_exit(sessions, "raise"))
    /\ UNCHANGED <<opens, results, outcome, fails, sleeps, slept, log, touched,
                   passes, tasks0, envVars, helpVars>>

\* main.py:126
GetTasklist ==
    /\ pc = "get_tasklist"
    /\ \/ /\ tasklist' = TRUE
          /\ pc' = "sync_task"
          /\ UNCHANGED <<exc, sessions, active>>
       \/ /\ Raise("APIError", with_exit(sessions, "raise"))
          /\ UNCHANGED tasklist
    /\ UNCHANGED <<opens, results, outcome, fails, sleeps, slept, log, touched,
                   passes, tasks0, pages, schema, tasks, links, helpVars>>

\* main.py:131-141: the SyncGTasks object is made and scheduled
SyncTask ==
    /\ pc = "sync_task"
    /\ IF {"Done", "Backlog"} \subseteq schema
       THEN /\ passes' = TotalTimes
            /\ pc' = "run_all_tasks"
            /\ UNCHANGED <<exc, sessions, active>>
       ELSE /\ Raise("KeyError", with_exit(sessions, "raise"))
            /\ UNCHANGED passes
    /\ UNCHANGED <<opens, results, outcome, fails, sleeps, slept, log, touched,
                   tasks0, envVars, helpVars>>

\* main.py:144: one pass of the scheduled task over notion_db, or a failure
RunAllTasks ==
    /\ pc = "run_all_tasks"
    /\ passes > 0
    /\ \/ /\ LET r == sync_pages(DOMAIN pages, pages, tasks, links)
             IN  tasks' = r.tasks /\ links' = r.links
          /\ touched' = touched \cup DOMAIN pages
          /\ passes' = passes - 1
          /\ UNCHANGED <<pc, exc, sessions, active>>
       \/ /\ Raise("APIError", with_exit(sessions, "raise"))
          /\ UNCHANGED <<tasks, links, touched, passes>>
    /\ UNCHANGED <<opens, results, outcome, fails, sleeps, slept, log, tasks0,
                   pages, schema, tasklist, helpVars>>

\* main.py:144-146: all passes ran; the function returns
Complete ==
    /\ pc = "run_all_tasks"
    /\ passes = 0
    /\ log' = log \cup {<<"Sync complete.">>}
    /\ Return("ok", "normal")
    /\ UNCHANGED <<opens, results, exc, touched, passes, tasks0, envVars, helpVars>>

\* main.py:159-160
Except ==
    /\ pc = "except"
    /\ IF catches(exc)
       THEN /\ log' = log \cup {<<"An error occurred during sync:", exc>>}
            /\ pc' = "sleep"
            /\ outcome' = "raised"
            /\ fails' = IF fails < MaxFail THEN fails + 1 ELSE fails
            /\ sleeps' = 0
            /\ slept' = 0
       ELSE /\ pc' = "crashed"
            /\ UNCHANGED <<log, outcome, fails, sleeps, slept>>
    /\ exc' = None
    /\ UNCHANGED <<sessions, opens, results, active, touched, passes, tasks0,
                   envVars, helpVars>>

\* main.py:161
Sleep ==
    /\ pc = "sleep"
    /\ sleeps' = sleeps + 1
    /\ slept' = slept + sleep_duration(outcome)
    /\ pc' = "try"
    \* what was recorded about the finished invocation is dropped
    /\ opens' = [notion |-> 0, gtasks |-> 0]
    /\ results' = {}
    /\ touched' = {}
    /\ log' = {}
    /\ passes' = 0
    /\ tasks0' = <<>>
    /\ UNCHANGED <<sessions, exc, outcome, fails, active, envVars, helpVars>>

\* the owner of the database adds, changes or deletes a page
NotionEdit ==
    /\ \E p \in PageIds :
          \/ \E rec \in PageRecords : pages' = (p :> rec) @@ pages
          \/ /\ p \in DOMAIN pages
             /\ pages' = [q \in DOMAIN pages \ {p} |-> pages[q]]
    /\ UNCHANGED <<progVars, schema, tasklist, tasks, links, helpVars>>

Step ==
    \/ Main
    \/ Invoke
    \/ OpenNotion
    \/ OpenGTasks
    \/ GetDb
    \/ IsEmpty
    \/ OrganizedOption
    \/ Query
    \/ PrintResults
    \/ GetProps
    \/ GetTasklist
    \/ SyncTask
    \/ RunAllTasks
    \/ Complete
    \/ Except
    \/ Sleep

Next == Step \/ NotionEdit

Spec == Init /\ [][Next]_vars

\* the interpreter keeps running the single thread of the program
FairSpec == Init /\ [][Next]_vars /\ WF_vars(Step)

----------------------------------------------------------------------------
\* Properties of sync_inbox_to_gtasks and of the main loop.

\* the tasks of ts whose notes carry the back-reference to page p
Carriers(ts, p) == {i \in DOMAIN ts : extract_notion_id(ts[i]) = p}

\* C4 as claimed: when an invocation has run to its end, every record the
\* filtered query returned that no task referred to before has exactly one
\* new task whose notes hold `Notion ID: <record id>` and which is not
\* completed; a record some task referred to has no new task, and that task's
\* done-ness is the record's "Done!" checkbox.
C4_CreateOrUpdate ==
    (pc = "sleep" /\ outcome = "ok") =>
        \A p \in results :
            IF Carriers(tasks0, p) = {}
            THEN /\ Cardinality(Carriers(tasks, p)) = 1
                 /\ \A i \in Carriers(tasks, p) :
                        i > Len(tasks0) /\ tasks[i].completed = None
            ELSE /\ Carriers(tasks, p) = Carriers(tasks0, p)
                 /\ p \in DOMAIN pages =>
                        \A i \in Carriers(tasks, p) :
                            (tasks[i].completed # None) = pages[p].done

\* C6: an exception raised by an invocation, of whatever class, is caught
\* and logged and the loop goes on to its sleep; from there the function is
\* always invoked again, however many invocations failed in a row.
C6_LoopSurvives ==
    /\ [][(pc = "except" /\ pc' # pc) =>
            /\ pc' = "sleep"
            /\ <<"An error occurred during sync:", exc>> \in log'
            /\ outcome' = "raised"]_vars
    /\ (pc = "except") ~> (pc = "open_notion")

\* the handler has caught and logged the StopIteration of a missing
\* 'Organized' option, the last of MaxFail failures in a row, and the loop
\* goes on to its sleep
C6_Witness ==
    /\ pc = "sleep"
    /\ fails = MaxFail
    /\ <<"An error occurred during sync:", "StopIteration">> \in log

C8_OnlyFiltered ==
    /\ touched \subseteq results
    /\ (pc = "sleep" /\ outcome = "ok") => touched = results

\* C9: no session is open outside an invocation (before the call, in the
\* handler, during the sleep); inside the body of the with statement both
\* are open and each was opened once; no session is opened twice in one
\* invocation, and an invocation that returned opened each exactly once.
C9_SessionsScoped ==
    /\ pc \notin BodyPcs \cup {"open_gtasks"} => sessions = Closed
    /\ pc = "open_gtasks" => sessions = [notion |-> TRUE, gtasks |-> FALSE]
    /\ pc \in BodyPcs =>
          /\ sessions = [notion |-> TRUE, gtasks |-> TRUE]
          /\ opens = [notion |-> 1, gtasks |-> 1]
    /\ opens.notion <= 1 /\ opens.gtasks <= 1
    /\ (pc = "sleep" /\ outcome \in {"ok", "early"}) =>
          opens = [notion |-> 1, gtasks |-> 1]

\* an exception left the body: both sessions had been opened and are closed
C9_Witness ==
    /\ pc = "except"
    /\ exc = "KeyError"
    /\ opens = [notion |-> 1, gtasks |-> 1]
    /\ sessions = Closed

\* C10: at most one invocation is in progress, and one is in progress
\* exactly between the call and its return or exception; when the loop is
\* about to invoke again, exactly one sleep, of SYNC_INTERVAL seconds, lies
\* between the end of the last invocation and now, however that invocation
\* ended (ok, early return, exception); when the loop is about to sleep it
\* has not slept yet since the invocation ended.
C10_OneSleepBetween ==
    /\ active <= 1
    /\ active = 1 <=> pc \in BodyPcs \cup {"open_notion", "open_gtasks"}
    /\ (pc = "try" /\ outcome # "none") => (sleeps = 1 /\ slept = SYNC_INTERVAL)
    /\ pc = "sleep" => sleeps = 0 /\ slept = 0

\* the loop slept once, for SYNC_INTERVAL, after MaxFail failures in a row
C10_Witness ==
    /\ pc = "try"
    /\ outcome = "raised"
    /\ fails = MaxFail
    /\ sleeps = 1
    /\ slept = SYNC_INTERVAL

====
